---- MODULE Spec2Model ----
(***************************************************************************)
(* Model of the asset enricher: src/kml_index.py (sector rules, KML ring    *)
(* parsing, index construction, point lookup) and src/app.py (load_indexes  *)
(* and the /enrich row loop).                                               *)
(*                                                                          *)
(* Text is a sequence of one-character strings, so that lower(), strip()    *)
(* and the substring tests are computed rather than assumed.  Coordinates   *)
(* are integers; a polygon is its closed ring plus the identity id() of the *)
(* Python object.                                                           *)
(***************************************************************************)
EXTENDS Integers, Sequences, FiniteSets, TLC

VARIABLES
    shapely_major,    \* major version of the installed shapely (1 or 2)
    pack,             \* packing order of the STRtree (implementation-defined)
    value,            \* normalize_sector: its argument
    norm_out,         \* normalize_sector: its result (Unset before the call)
    coords_pm,        \* _polygons_from_placemark: its argument
    polys_out,        \* _polygons_from_placemark: its result
    zone_kml_paths,   \* build_zone_indexes_from_paths: its argument
    freguesias_kml,   \* the placemarks of the parish document
    path_i,           \* build_zone_indexes_from_paths: paths consumed by the loop
    sector,           \* build_zone_indexes_from_paths: loop local `sector`
    by_sector_geoms,  \* build_zone_indexes_from_paths: accumulator
    by_sector_vals,   \* build_zone_indexes_from_paths: accumulator
    ZONE_INDEXES,     \* app.ZONE_INDEXES
    FREG_INDEX,       \* app.FREG_INDEX
    phase,            \* position of the process / of the build
    req,              \* the /enrich requests in flight
    data_dir,         \* DATA_DIR: the listing of ZONES_DIR, the gzipped parishes
    lk                \* the last lookup_point call and its result

vars == <<shapely_major, pack, value, norm_out, coords_pm, polys_out,
          zone_kml_paths, freguesias_kml, path_i, sector, by_sector_geoms,
          by_sector_vals, ZONE_INDEXES, FREG_INDEX, phase, req, data_dir, lk>>

\* the installation, and the arguments and results of the unit calls
env_vars == <<shapely_major, pack>>

call_vars == <<value, norm_out, coords_pm, polys_out, lk>>

\* the locals of build_zone_indexes_from_paths
loop_vars == <<path_i, sector, by_sector_geoms, by_sector_vals>>

\* the documents on disk
doc_vars == <<data_dir, freguesias_kml>>

-----------------------------------------------------------------------------
(* Python values *)

\* Python's None where a text is expected: no text holds a two-letter element.
None == <<"None">>

\* A variable that no call has written yet.
Unset == <<"unset">>

\* Result of a call that may raise.
Ok(v) == [ok |-> TRUE, val |-> v]

Raise == [ok |-> FALSE, val |-> <<>>]

\* Python's None where a SpatialIndex is expected
NoIndex == [none |-> TRUE]

-----------------------------------------------------------------------------
(* Text: str.lower, str.strip, `in` *)

UpperLetters == <<"A","B","C","D","E","F","G","H","I","J","K","L","M",
                  "N","O","P","Q","R","S","T","U","V","W","X","Y","Z">>

LowerLetters == <<"a","b","c","d","e","f","g","h","i","j","k","l","m",
                  "n","o","p","q","r","s","t","u","v","w","x","y","z">>

Whitespace == {" ", "\t", "\n"}

lower_char(c) ==
    IF \E k \in DOMAIN UpperLetters : UpperLetters[k] = c
    THEN LowerLetters[CHOOSE k \in DOMAIN UpperLetters : UpperLetters[k] = c]
    ELSE c

lower(s) == [k \in 1..Len(s) |-> lower_char(s[k])]

RECURSIVE lstrip(_)
lstrip(s) == IF s # <<>> /\ Head(s) \in Whitespace THEN lstrip(Tail(s)) ELSE s

RECURSIVE rstrip(_)
rstrip(s) ==
    IF s # <<>> /\ s[Len(s)] \in Whitespace
    THEN rstrip(SubSeq(s, 1, Len(s) - 1))
    ELSE s

strip(s) == rstrip(lstrip(s))

\* Python's `kw in s` on strings
Contains(s, kw) ==
    \E k \in 0..(Len(s) - Len(kw)) : SubSeq(s, k + 1, k + Len(kw)) = kw

kw_hsr == <<"h","s","r">>

kw_retail == <<"r","e","t","a","i","l">>

kw_office == <<"o","f","f","i","c","e">>

kw_industrial == <<"i","n","d","u","s","t","r","i","a","l">>

kw_logistics == <<"l","o","g","i","s","t","i","c","s">>

kw_freguesia == <<"f","r","e","g","u","e","s","i","a">>

Retail == <<"R","e","t","a","i","l">>

Office == <<"O","f","f","i","c","e">>

IndustrialLogistics ==
    <<"I","n","d","u","s","t","r","i","a","l"," ","&"," ",
      "L","o","g","i","s","t","i","c","s">>

\* kml_index.normalize_sector
normalize_sector(v) ==
    LET s == lower(strip(v)) IN
    IF s \in {kw_hsr, kw_retail} \/ Contains(s, kw_retail) THEN Retail
    ELSE IF s \in {kw_office} \/ Contains(s, kw_office) THEN Office
    ELSE IF Contains(s, kw_industrial) \/ Contains(s, kw_logistics)
         THEN IndustrialLogistics
    ELSE strip(v)

\* infer_sector_from_filename with the office test ahead of the retail test
infer_sector_office_first(filename) ==
    IF Contains(lower(filename), kw_freguesia) THEN None
    ELSE IF Contains(lower(filename), kw_office) THEN Office
    ELSE IF Contains(lower(filename), kw_hsr) \/ Contains(lower(filename), kw_retail)
         THEN Retail
    ELSE IF Contains(lower(filename), kw_industrial)
            \/ Contains(lower(filename), kw_logistics)
         THEN IndustrialLogistics
    ELSE None

\* kml_index.infer_sector_from_filename
infer_sector_from_filename(filename) ==
    LET fn == lower(filename) IN
    IF Contains(fn, kw_freguesia) THEN None
    ELSE IF Contains(fn, kw_hsr) \/ Contains(fn, kw_retail) THEN Retail
    ELSE IF Contains(fn, kw_office) THEN Office
    ELSE IF Contains(fn, kw_industrial) \/ Contains(fn, kw_logistics)
         THEN IndustrialLogistics
    ELSE None

-----------------------------------------------------------------------------
(* Numbers: float() *)

Digits == <<"0","1","2","3","4","5","6","7","8","9">>

digit_val(c) == (CHOOSE k \in DOMAIN Digits : Digits[k] = c) - 1

RECURSIVE decimal(_)
decimal(s) ==
    IF s = <<>> THEN 0
    ELSE 10 * decimal(SubSeq(s, 1, Len(s) - 1)) + digit_val(s[Len(s)])

\* Python's float() on the texts of the model: unsigned decimal numerals
\* parse, anything else raises ValueError.
py_float(s) ==
    IF s # <<>> /\ \A k \in 1..Len(s) : \E d \in DOMAIN Digits : Digits[d] = s[k]
    THEN Ok(decimal(s))
    ELSE Raise

-----------------------------------------------------------------------------
(* kml_index._parse_kml_coordinates *)

\* length of the leading run of s whose characters are not in `stop`
RECURSIVE run_len(_, _)
run_len(s, stop) ==
    IF s = <<>> \/ Head(s) \in stop THEN 0 ELSE 1 + run_len(Tail(s), stop)

\* re.split(r"\s+", text.strip()) without the empty tokens the loop skips
RECURSIVE split_ws(_)
split_ws(text) ==
    LET s == lstrip(text)
        n == run_len(s, Whitespace)
    IN  IF s = <<>> THEN <<>>
        ELSE <<SubSeq(s, 1, n)>> \o split_ws(SubSeq(s, n + 1, Len(s)))

\* token.split(",")
RECURSIVE split_comma(_)
split_comma(token) ==
    LET n == run_len(token, {","})
    IN  IF n = Len(token) THEN <<token>>
        ELSE <<SubSeq(token, 1, n)>> \o split_comma(SubSeq(token, n + 2, Len(token)))

\* coords.append((lon, lat)) before the coordinates of the later tokens
append_coord(lon, lat, rest) ==
    IF ~lon.ok \/ ~lat.ok \/ ~rest.ok THEN Raise
    ELSE Ok(<<<<lon.val, lat.val>>>> \o rest.val)

\* one token, split at its commas
parse_token(parts, rest) ==
    IF Len(parts) < 2 THEN rest
    ELSE append_coord(py_float(parts[1]), py_float(parts[2]), rest)

RECURSIVE parse_tokens(_)
parse_tokens(tokens) ==
    IF tokens = <<>> THEN Ok(<<>>)
    ELSE parse_token(split_comma(Head(tokens)), parse_tokens(Tail(tokens)))

_parse_kml_coordinates(text) == parse_tokens(split_ws(text))

-----------------------------------------------------------------------------
(* shapely.geometry.Polygon: construction, is_valid, covers, envelope *)

cross(o, a, b) == (a[1] - o[1]) * (b[2] - o[2]) - (a[2] - o[2]) * (b[1] - o[1])

Min(a, b) == IF a <= b THEN a ELSE b

Max(a, b) == IF a >= b THEN a ELSE b

\* p lies on the closed segment a-b
on_segment(p, a, b) ==
    /\ cross(a, b, p) = 0
    /\ Min(a[1], b[1]) <= p[1] /\ p[1] <= Max(a[1], b[1])
    /\ Min(a[2], b[2]) <= p[2] /\ p[2] <= Max(a[2], b[2])

sign(n) == IF n > 0 THEN 1 ELSE IF n < 0 THEN -1 ELSE 0

\* the closed segments a-b and c-d share a point
seg_intersect(a, b, c, d) ==
    \/ /\ sign(cross(c, d, a)) * sign(cross(c, d, b)) < 0
       /\ sign(cross(a, b, c)) * sign(cross(a, b, d)) < 0
    \/ on_segment(a, c, d) \/ on_segment(b, c, d)
    \/ on_segment(c, a, b) \/ on_segment(d, a, b)

\* a ring without its repeated consecutive points
RECURSIVE dedupe(_)
dedupe(ring) ==
    IF Len(ring) < 2 THEN ring
    ELSE IF ring[1] = ring[2] THEN dedupe(Tail(ring))
    ELSE <<ring[1]>> \o dedupe(Tail(ring))

\* Polygon(coords): the shell shapely builds.  linearrings() appends the
\* first coordinate when the ring is open or has only 3 coordinates.
Shell(coords) ==
    IF Len(coords) = 3 \/ coords[1] # coords[Len(coords)]
    THEN Append(coords, coords[1])
    ELSE coords

\* a closed ring without repeated points is simple and has three edges or more
simple_ring(c, n) ==
    /\ n >= 3
    /\ \A i \in 1..n : \A j \in (i + 1)..n :
          IF j = i + 1
          THEN /\ ~on_segment(c[i], c[j], c[j + 1])
               /\ ~on_segment(c[j + 1], c[i], c[j])
          ELSE IF i = 1 /\ j = n
          THEN /\ ~on_segment(c[2], c[n], c[1])
               /\ ~on_segment(c[n], c[1], c[2])
          ELSE ~seg_intersect(c[i], c[i + 1], c[j], c[j + 1])

\* poly.is_valid for a shell without holes: a simple ring of at least three
\* edges (hence of non-zero area); repeated points do not count
is_valid(ring) == simple_ring(dedupe(ring), Len(dedupe(ring)) - 1)

\* poly.is_empty: a shell built from three or more coordinates is not empty
is_empty(ring) == Len(ring) = 0

\* the edges of ring that a ray from p towards +x crosses
crossings(ring, p) ==
    {i \in 1..(Len(ring) - 1) :
        LET a == ring[i]
            b == ring[i + 1]
            dy == b[2] - a[2]
        IN  /\ (a[2] > p[2]) # (b[2] > p[2])
            /\ IF dy > 0
               THEN (p[1] - a[1]) * dy < (p[2] - a[2]) * (b[1] - a[1])
               ELSE (p[1] - a[1]) * dy > (p[2] - a[2]) * (b[1] - a[1])}

\* g.covers(pt): interior or boundary
covers(g, p) ==
    \/ \E i \in 1..(Len(g.ring) - 1) : on_segment(p, g.ring[i], g.ring[i + 1])
    \/ Cardinality(crossings(g.ring, p)) % 2 = 1

\* the envelope of g holds p (the STRtree's pre-filter)
envelope_hit(g, p) ==
    /\ \E i \in 1..Len(g.ring) : g.ring[i][1] <= p[1]
    /\ \E i \in 1..Len(g.ring) : g.ring[i][1] >= p[1]
    /\ \E i \in 1..Len(g.ring) : g.ring[i][2] <= p[2]
    /\ \E i \in 1..Len(g.ring) : g.ring[i][2] >= p[2]

-----------------------------------------------------------------------------
(* kml_index._polygons_from_placemark *)

\* A placemark is [name, simple, polygons]: the text of its kml:name (None
\* without the element), its SimpleData fields in document order, and the
\* coordinates text of each Polygon (None without the coordinates element).
\* `at` is where the placemark stands; with the Polygon's position it is the
\* identity id() of the object created.

\* close_ring with the minimum taken as 4 parsed vertices
close_ring_min4(coords) ==
    IF ~coords.ok THEN Raise
    ELSE IF Len(coords.val) < 4 THEN Ok(<<>>)
    ELSE IF coords.val[1] # coords.val[Len(coords.val)]
         THEN Ok(Append(coords.val, coords.val[1]))
    ELSE Ok(coords.val)

\* lines 73-77: the parsed ring, closed; Ok(<<>>) when it is skipped
close_ring(coords) ==
    IF ~coords.ok THEN Raise
    ELSE IF Len(coords.val) < 3 THEN Ok(<<>>)
    ELSE IF coords.val[1] # coords.val[Len(coords.val)]
         THEN Ok(Append(coords.val, coords.val[1]))
    ELSE Ok(coords.val)

\* the ring handed to Polygon() for one coordinates text:
\* Ok(<<>>) when the element is skipped
ring_of(text) ==
    IF text = None \/ strip(text) = <<>> THEN Ok(<<>>)
    ELSE close_ring(_parse_kml_coordinates(text))

new_polygon(coords, id) == [ring |-> Shell(coords), id |-> id]

\* lines 80-83
keep_polygon(poly, rest) ==
    IF is_empty(poly.ring) \/ ~is_valid(poly.ring) THEN rest
    ELSE Ok(<<poly>> \o rest.val)

\* one Polygon element, before the polygons of the later elements
add_polygon(coords, rest, id) ==
    IF ~coords.ok \/ ~rest.ok THEN Raise
    ELSE IF coords.val = <<>> THEN rest
    ELSE keep_polygon(new_polygon(coords.val, id), rest)

RECURSIVE polygons_from(_, _, _)
polygons_from(els, at, k) ==
    IF k > Len(els) THEN Ok(<<>>)
    ELSE add_polygon(ring_of(els[k]), polygons_from(els, at, k + 1), <<at, k>>)

_polygons_from_placemark(pm, at) == polygons_from(pm.polygons, at, 1)

-----------------------------------------------------------------------------
(* kml_index.SpatialIndex and shapely.strtree.STRtree *)

\* STRtree(geoms): the tree keeps the geometries in the order given
STRtree(geoms) == [geometries |-> geoms]

\* {id(g): v for g, v in zip(geoms, vals)}
id_to_value(geoms, vals) ==
    LET n == Min(Len(geoms), Len(vals))
    IN  [i \in {geoms[k].id : k \in 1..n} |->
            vals[CHOOSE k \in 1..n :
                    /\ geoms[k].id = i
                    /\ \A m \in (k + 1)..n : geoms[m].id # i]]

SpatialIndex(tree, values, geom_id_to_value) ==
    [tree |-> tree, values |-> values, geom_id_to_value |-> geom_id_to_value]

\* place of position i in the order in which the tree reports its hits
rank(i) ==
    LET w == Len(pack)
    IN  w * ((i - 1) \div w) + pack[((i - 1) % w) + 1]

RECURSIVE by_rank(_)
by_rank(S) ==
    IF S = {} THEN <<>>
    ELSE LET i == CHOOSE x \in S : \A y \in S : rank(x) <= rank(y)
         IN  <<i>> \o by_rank(S \ {i})

\* tree.query(pt): the positions whose envelope holds pt, in the tree's order
tree_query(tree, p) ==
    by_rank({i \in 1..Len(tree.geometries) : envelope_hit(tree.geometries[i], p)})

-----------------------------------------------------------------------------
(* kml_index.build_zone_indexes_from_paths *)

Slash == "/"

\* os.path.basename
RECURSIVE basename(_)
basename(path) ==
    LET n == run_len(path, {Slash})
    IN  IF n = Len(path) THEN path
        ELSE basename(SubSeq(path, n + 2, Len(path)))

Dash == <<" ","-"," ">>

\* d.setdefault(k, []).extend(xs)
extend_at(d, k, xs) ==
    IF k \in DOMAIN d THEN [d EXCEPT ![k] = @ \o xs] ELSE (k :> xs) @@ d

\* [v] * n
RECURSIVE repeat(_, _)
repeat(v, n) == IF n <= 0 THEN <<>> ELSE <<v>> \o repeat(v, n - 1)

\* (name_el.text or "").strip() if name_el is not None else ""
zone_name_of(pm) == IF pm.name = None THEN <<>> ELSE strip(pm.name)

\* zone_add with the sector's lists created before the polygons are looked at
zone_add_key_first(acc, sec, zone_name, polys) ==
    IF zone_name = <<>> THEN Ok(acc)
    ELSE IF ~polys.ok THEN Raise
    ELSE Ok([geoms |-> extend_at(acc.geoms, sec, polys.val),
             vals |-> extend_at(acc.vals, sec,
                                repeat(sec \o Dash \o zone_name, Len(polys.val)))])

\* zone_add with one label for the placemark instead of one for each polygon
zone_add_one_label(acc, sec, zone_name, polys) ==
    IF zone_name = <<>> THEN Ok(acc)
    ELSE IF ~polys.ok THEN Raise
    ELSE IF polys.val = <<>> THEN Ok(acc)
    ELSE Ok([geoms |-> extend_at(acc.geoms, sec, polys.val),
             vals |-> extend_at(acc.vals, sec, <<sec \o Dash \o zone_name>>)])

\* zone_add without the test of the zone name
zone_add_any_name(acc, sec, zone_name, polys) ==
    IF ~polys.ok THEN Raise
    ELSE IF polys.val = <<>> THEN Ok(acc)
    ELSE Ok([geoms |-> extend_at(acc.geoms, sec, polys.val),
             vals |-> extend_at(acc.vals, sec,
                                repeat(sec \o Dash \o zone_name, Len(polys.val)))])

\* lines 115-124: the accumulators after a placemark named zone_name
zone_add(acc, sec, zone_name, polys) ==
    IF zone_name = <<>> THEN Ok(acc)
    ELSE IF ~polys.ok THEN Raise
    ELSE IF polys.val = <<>> THEN Ok(acc)
    ELSE Ok([geoms |-> extend_at(acc.geoms, sec, polys.val),
             vals |-> extend_at(acc.vals, sec,
                                repeat(sec \o Dash \o zone_name, Len(polys.val)))])

\* one turn of the placemark loop; r is Raise once a turn has raised
zone_placemark(r, sec, pm, at) ==
    IF ~r.ok THEN Raise
    ELSE zone_add(r.val, sec, zone_name_of(pm), _polygons_from_placemark(pm, at))

RECURSIVE zone_placemarks(_, _, _, _, _)
zone_placemarks(r, sec, pms, fi, k) ==
    IF k > Len(pms) THEN r
    ELSE zone_placemarks(zone_placemark(r, sec, pms[k], <<fi, k>>),
                         sec, pms, fi, k + 1)

\* lines 106-112: a file without a sector is passed over
zone_in_sector(r, sec, file, fi) ==
    IF sec = None \/ sec = <<>> THEN r
    ELSE zone_placemarks(r, sec, file.doc, fi, 1)

\* one turn of the path loop: file number fi
zone_file(r, file, fi) ==
    IF ~r.ok THEN Raise
    ELSE zone_in_sector(r, infer_sector_from_filename(basename(file.path)),
                        file, fi)

\* lines 126-134: the registry built from the accumulators
zone_indexes(acc) ==
    [sec \in DOMAIN acc.geoms |->
        SpatialIndex(STRtree(acc.geoms[sec]), acc.vals[sec],
                     id_to_value(acc.geoms[sec], acc.vals[sec]))]

EmptyAcc == [geoms |-> <<>>, vals |-> <<>>]

RECURSIVE zone_files(_, _, _)
zone_files(r, paths, fi) ==
    IF fi > Len(paths) THEN r
    ELSE zone_files(zone_file(r, paths[fi], fi), paths, fi + 1)

registry_of(r) == IF ~r.ok THEN Raise ELSE Ok(zone_indexes(r.val))

build_zone_indexes_from_paths(paths) ==
    registry_of(zone_files(Ok(EmptyAcc), paths, 1))

-----------------------------------------------------------------------------
(* kml_index.build_freguesia_index_from_path *)

Freguesia == <<"F","r","e","g","u","e","s","i","a">>

\* the first SimpleData named "Freguesia": (sd.text or "").strip(), else None
RECURSIVE freg_name_of(_)
freg_name_of(simple) ==
    IF simple = <<>> THEN None
    ELSE IF Head(simple).name = Freguesia THEN strip(Head(simple).text)
    ELSE freg_name_of(Tail(simple))

\* lines 157-161: the lists after a placemark whose parish is freg_name
freg_add(acc, freg_name, polys) ==
    IF freg_name = None \/ freg_name = <<>> THEN Ok(acc)
    ELSE IF ~polys.ok THEN Raise
    ELSE Ok([geoms |-> acc.geoms \o polys.val,
             vals |-> acc.vals \o repeat(freg_name, Len(polys.val))])

\* one turn of the placemark loop; r is Raise once a turn has raised
freg_placemark(r, pm, at) ==
    IF ~r.ok THEN Raise
    ELSE freg_add(r.val, freg_name_of(pm.simple), _polygons_from_placemark(pm, at))

\* the parish document is the file numbered 0
RECURSIVE freg_placemarks(_, _, _)
freg_placemarks(r, pms, k) ==
    IF k > Len(pms) THEN r
    ELSE freg_placemarks(freg_placemark(r, pms[k], <<0, k>>), pms, k + 1)

\* lines 168-170
freg_index(r) ==
    IF ~r.ok THEN Raise
    ELSE Ok(SpatialIndex(STRtree(r.val.geoms), r.val.vals,
                         id_to_value(r.val.geoms, r.val.vals)))

build_freguesia_index_from_path(doc) ==
    freg_index(freg_placemarks(Ok([geoms |-> <<>>, vals |-> <<>>]), doc, 1))

-----------------------------------------------------------------------------
(* kml_index.lookup_point *)

\* tree.query(pt) as the installed shapely returns it: positions (shapely 2)
\* or the geometry objects themselves (shapely 1)
as_candidates(index, hits) ==
    IF shapely_major = 2 THEN hits
    ELSE [k \in 1..Len(hits) |-> index.tree.geometries[hits[k]]]

candidates_of(index, p) == as_candidates(index, tree_query(index.tree, p))

\* Case A: the candidates are positions; Unset when the loop ends without
\* a return.  int(item) raises on a geometry, so shapely 1 falls through.
RECURSIVE case_a(_, _, _, _)
case_a(index, cands, p, k) ==
    IF shapely_major # 2 \/ k > Len(cands) THEN Unset
    ELSE LET i == cands[k]
         IN  IF covers(index.tree.geometries[i], p)
             THEN (IF i <= Len(index.values) THEN index.values[i] ELSE None)
             ELSE case_a(index, cands, p, k + 1)

\* Case B: the candidates are geometries; a position has no covers()
RECURSIVE case_b(_, _, _, _)
case_b(index, cands, p, k) ==
    IF shapely_major = 2 \/ k > Len(cands) THEN None
    ELSE IF covers(cands[k], p)
         THEN (IF cands[k].id \in DOMAIN index.geom_id_to_value
               THEN index.geom_id_to_value[cands[k].id]
               ELSE None)
         ELSE case_b(index, cands, p, k + 1)

\* Case B runs when Case A ends without a return
first_return(a, b) == IF a # Unset THEN a ELSE b

scan(index, cands, pt) ==
    first_return(case_a(index, cands, pt, 1), case_b(index, cands, pt, 1))

\* lookup_point with the point built as (lat, lon)
lookup_point_lat_first(index, lat, lon) ==
    scan(index, candidates_of(index, <<lat, lon>>), <<lat, lon>>)

\* lines 173-219
lookup_point(index, lat, lon) ==
    scan(index, candidates_of(index, <<lon, lat>>), <<lon, lat>>)

-----------------------------------------------------------------------------
(* Inputs *)

\* the sequences over S of length at most n
BSeq(S, n) == UNION {[1..k -> S] : k \in 0..n}

\* longest upload, in rows
MaxRows == 2

\* longest coordinates text, in tokens
MaxRing == 4

\* most zone files handed to one build
MaxFiles == 2

\* most placemarks in a parish document
MaxPlacemarks == 2

ShapelyVersions == {1, 2}

PackOrders ==
    {<<1,2,3>>, <<1,3,2>>, <<2,1,3>>, <<2,3,1>>, <<3,1,2>>, <<3,2,1>>}

\* words raw sector texts are made of
SectorWords ==
    {<<"h","s","r">>,
     <<"H","S","R">>,
     <<"r","e","t","a","i","l">>,
     <<"R","e","t","a","i","l">>,
     <<"o","f","f","i","c","e">>,
     <<"O","F","F","I","C","E">>,
     <<"i","n","d","u","s","t","r","i","a","l">>,
     <<"L","o","g","i","s","t","i","c","s">>,
     <<"f","r","e","g","u","e","s","i","a">>,
     <<"p","a","r","k">>}

\* raw sector texts: [space] word [separator word] [space]
SectorTexts ==
    {pre \o w1 \o mid \o w2 \o post :
        pre \in {<<>>, <<" ">>}, w1 \in SectorWords,
        mid \in {<<>>, <<" ">>, <<"_">>}, w2 \in SectorWords \cup {<<>>},
        post \in {<<>>, <<"\t">>}}

\* tokens of a coordinates text: lon,lat pairs, one with an altitude, one
\* without a comma, one that is no number
RingTokens ==
    {<<"0",",","0">>,
     <<"2",",","0">>,
     <<"1",",","2">>,
     <<"0",",","2",",","9">>,
     <<"2",",","2">>,
     <<"1",",","1">>,
     <<"7">>,
     <<"x",",","1">>}

RECURSIVE join(_)
join(tokens) ==
    IF tokens = <<>> THEN <<>>
    ELSE IF Len(tokens) = 1 THEN tokens[1]
    ELSE tokens[1] \o <<" ">> \o join(Tail(tokens))

Placemark(name, simple, polygons) ==
    [name |-> name, simple |-> simple, polygons |-> polygons]

\* placemarks handed to _polygons_from_placemark
RingPlacemarks ==
    {Placemark(None, <<>>, <<<<"\n">> \o join(tokens) \o <<" ">>>>) :
        tokens \in BSeq(RingTokens, MaxRing)}
    \cup {Placemark(None, <<>>, <<None>>),
          Placemark(None, <<>>, <<<<"0",",","0"," ","2",",","0"," ","1",",","2">>, None, <<"4",",","0"," ","6",",","0"," ","6",",","2"," ","4",",","2"," ","4",",","0">>>>)}

-----------------------------------------------------------------------------
(* Variables a specification leaves alone *)

SectorIdle == value = <<>> /\ norm_out = Unset

RingIdle == coords_pm = Unset /\ polys_out = Unset

BuildIdle ==
    /\ zone_kml_paths = <<>> /\ freguesias_kml = <<>>
    /\ path_i = 0 /\ sector = Unset
    /\ by_sector_geoms = <<>> /\ by_sector_vals = <<>>

AppIdle ==
    /\ ZONE_INDEXES = <<>> /\ FREG_INDEX = NoIndex /\ req = <<>>
    /\ data_dir = [isdir |-> FALSE, zones |-> <<>>, gz |-> FALSE]

LookupIdle == lk = [called |-> FALSE]

EnvFixed == shapely_major = 2 /\ pack = <<1,2,3>>

-----------------------------------------------------------------------------
(* Calls of normalize_sector *)

InitSector ==
    /\ value \in SectorTexts
    /\ norm_out = Unset
    /\ phase = "call"
    /\ EnvFixed /\ RingIdle /\ BuildIdle /\ AppIdle /\ LookupIdle

NormalizeSector ==
    /\ phase = "call"
    /\ norm_out' = normalize_sector(value)
    /\ phase' = "returned"
    /\ UNCHANGED <<env_vars, value, coords_pm, polys_out, lk, zone_kml_paths,
                   loop_vars, doc_vars, ZONE_INDEXES, FREG_INDEX, req>>

SpecSector == InitSector /\ [][NormalizeSector]_vars

\* the rule of the Sector Classifier on the trimmed, lower-cased text, with
\* the trimmed text itself when no keyword is found
classifier_rule(t) ==
    LET s == lower(strip(t)) IN
    IF Contains(s, kw_hsr) \/ Contains(s, kw_retail) THEN Retail
    ELSE IF Contains(s, kw_office) THEN Office
    ELSE IF Contains(s, kw_industrial) \/ Contains(s, kw_logistics)
         THEN IndustrialLogistics
    ELSE strip(t)

has_keyword(t) ==
    \E kw \in {kw_hsr, kw_retail, kw_office, kw_industrial, kw_logistics} :
        Contains(lower(t), kw)

\* C1: normalize_sector(t) is the Classifier's substring rule applied to the
\* trimmed, lower-cased t (the trimmed t when no keyword matches), and it
\* agrees with infer_sector_from_filename on every text that holds a keyword
\* and does not hold "freguesia".
C1_NormalizeFollowsClassifierRule ==
    phase = "returned" =>
        /\ norm_out = classifier_rule(value)
        /\ (has_keyword(value) /\ ~Contains(lower(value), kw_freguesia)
               => norm_out = infer_sector_from_filename(value))

-----------------------------------------------------------------------------
(* Calls of _polygons_from_placemark *)

InitRing ==
    /\ coords_pm \in RingPlacemarks
    /\ polys_out = Unset
    /\ phase = "call"
    /\ EnvFixed /\ SectorIdle /\ BuildIdle /\ AppIdle /\ LookupIdle

PolygonsFromPlacemark ==
    /\ phase = "call"
    /\ polys_out' = _polygons_from_placemark(coords_pm, <<1, 1>>)
    /\ phase' = "returned"
    /\ UNCHANGED <<env_vars, value, norm_out, coords_pm, lk, zone_kml_paths,
                   loop_vars, doc_vars, ZONE_INDEXES, FREG_INDEX, req>>

SpecRing == InitRing /\ [][PolygonsFromPlacemark]_vars

\* the polygon stored for the k-th Polygon element, as a set (empty when the
\* element was skipped or its polygon rejected)
stored_for(k) ==
    {polys_out.val[m].ring : m \in {n \in 1..Len(polys_out.val) :
                                       polys_out.val[n].id = <<<<1, 1>>, k>>}}

\* the first token of a coordinates text that holds a pair
first_pair(text) ==
    LET tokens == split_ws(text)
        k == CHOOSE n \in 1..Len(tokens) :
                /\ Len(split_comma(tokens[n])) >= 2
                /\ \A m \in 1..(n - 1) : Len(split_comma(tokens[m])) < 2
    IN  tokens[k]

\* C9: every stored ring is closed and has at least 4 vertices; a ring with
\* fewer than 3 parsed vertices is discarded; an open ring is stored with
\* exactly one copy of its first vertex appended, a closed one as parsed; and
\* an open ring yields the polygon that the same ring, closed, yields.
C9_StoredRingsClosed ==
    (phase = "returned" /\ polys_out.ok) =>
        \A k \in 1..Len(coords_pm.polygons) :
            LET text == coords_pm.polygons[k]
                parsed == _parse_kml_coordinates(text).val
                n == Len(parsed)
            IN  /\ \A ring \in stored_for(k) :
                      ring[1] = ring[Len(ring)] /\ Len(ring) >= 4
                /\ text = None => stored_for(k) = {}
                /\ text # None =>
                      /\ n < 3 => stored_for(k) = {}
                      /\ (n >= 3 /\ parsed[1] # parsed[n]) =>
                            /\ stored_for(k) \subseteq {Append(parsed, parsed[1])}
                            /\ LET closed == text \o <<" ">> \o first_pair(text)
                                   again == _polygons_from_placemark(
                                              Placemark(None, <<>>, <<closed>>),
                                              <<1, 1>>)
                               IN  {again.val[m].ring : m \in 1..Len(again.val)}
                                      = stored_for(k)
                      /\ (n >= 3 /\ parsed[1] = parsed[n]) =>
                            stored_for(k) \subseteq {parsed}

\* an open ring of three or more vertices was parsed and stored
C9_Witness ==
    /\ phase = "returned" /\ polys_out.ok
    /\ \E k \in 1..Len(coords_pm.polygons) :
          /\ coords_pm.polygons[k] # None
          /\ LET parsed == _parse_kml_coordinates(coords_pm.polygons[k]).val
             IN  Len(parsed) >= 3 /\ parsed[1] # parsed[Len(parsed)]
          /\ stored_for(k) # {}

-----------------------------------------------------------------------------
(* KML documents *)

\* coordinates texts: an open triangle, a closed square over it, a square
\* apart, two vertices, a self-crossing ring, a token that is no number
TriA == <<"0",",","0"," ","2",",","0"," ","1",",","2">>

SquareB == <<"0",",","0"," ","2",",","0"," ","2",",","2"," ","0",",","2"," ","0",",","0">>

FarC == <<"\n"," ","4",",","0",",","0"," ","6",",","0",",","0"," ","6",",","2",",","0"," ","4",",","2",",","0"," ">>

TwoPts == <<"0",",","0"," ","2",",","0">>

Bowtie == <<"0",",","0"," ","2",",","2"," ","2",",","0"," ","0",",","2">>

BadNum == <<"0",",","0"," ","x",",","1"," ","2",",","2">>

SimpleData(name, text) == [name |-> name, text |-> text]

zA == Placemark(<<"A">>, <<>>, <<TriA>>)

zB == Placemark(<<" ","B"," ">>, <<>>, <<SquareB, FarC>>)

zNoName == Placemark(None, <<>>, <<TriA>>)

zBlank == Placemark(<<" ">>, <<>>, <<BadNum>>)

zEmpty == Placemark(<<"E">>, <<>>, <<TwoPts, Bowtie, None, <<" ">>>>)

zBad == Placemark(<<"X">>, <<>>, <<TriA, BadNum>>)

KmlFile(path, doc) == [path |-> path, doc |-> doc]

ZoneFiles ==
    {KmlFile(<<"z","o","n","e","s","/","H","S","R","_","Z","o","n","e","s",".","k","m","l">>, <<zNoName, zA, zEmpty, zBlank>>),
     KmlFile(<<"z","o","n","e","s","/","r","e","t","a","i","l","_","o","f","f","i","c","e",".","k","m","l">>, <<zB>>),
     KmlFile(<<"z","o","n","e","s","/","O","f","f","i","c","e",".","K","M","L">>, <<zB, zEmpty, zA>>),
     KmlFile(<<"z","o","n","e","s","/","o","f","f","i","c","e"," ","i","n","d","u","s","t","r","i","a","l",".","k","m","l">>, <<zNoName, zA>>),
     KmlFile(<<"z","o","n","e","s","/","L","o","g","i","s","t","i","c","s",".","k","m","l">>, <<zBlank, zEmpty>>),
     KmlFile(<<"z","o","n","e","s","/","F","r","e","g","u","e","s","i","a","s","_","R","e","t","a","i","l",".","k","m","l">>, <<zA>>),
     KmlFile(<<"r","e","t","a","i","l","/","p","l","a","n",".","k","m","l">>, <<zA>>),
     KmlFile(<<"z","o","n","e","s","/","i","n","d","u","s","t","r","i","a","l","_","x",".","k","m","l">>, <<zA, zBad>>)}

pP == Placemark(None,
                <<SimpleData(<<"C","o","n","c","e","l","h","o">>, <<"L","i","s","b","o","a">>),
                  SimpleData(Freguesia, <<" ","A","l","v","a","l","a","d","e"," ">>)>>,
                <<TriA>>)

pQ == Placemark(<<"q">>, <<SimpleData(Freguesia, <<"B","e","n","f","i","c","a">>)>>,
                <<SquareB, FarC>>)

pNoF == Placemark(<<"n">>, <<SimpleData(<<"f","r","e","g","u","e","s","i","a">>, <<"L","u","m","i","a","r">>)>>,
                  <<BadNum>>)

pBlankF == Placemark(None,
                     <<SimpleData(Freguesia, <<" ">>),
                       SimpleData(Freguesia, <<"L","a","t","e">>)>>,
                     <<TriA>>)

pZero == Placemark(None, <<SimpleData(Freguesia, <<"Z","e","r","o">>)>>,
                   <<Bowtie, TwoPts>>)

pBad == Placemark(None, <<SimpleData(Freguesia, <<"B","a","d">>)>>, <<BadNum>>)

ParishPlacemarks == {pP, pQ, pNoF, pBlankF, pZero, pBad}

-----------------------------------------------------------------------------
(* Calls of build_zone_indexes_from_paths and build_freguesia_index_from_path *)

InitBuild ==
    /\ \/ /\ phase = "zones"
          /\ zone_kml_paths \in BSeq(ZoneFiles, MaxFiles)
          /\ freguesias_kml = <<>>
       \/ /\ phase = "freguesias"
          /\ zone_kml_paths = <<>>
          /\ freguesias_kml \in BSeq(ParishPlacemarks, MaxPlacemarks)
    /\ path_i = 0 /\ sector = Unset
    /\ by_sector_geoms = <<>> /\ by_sector_vals = <<>>
    /\ EnvFixed /\ SectorIdle /\ RingIdle /\ AppIdle /\ LookupIdle

ZonePathTurn(fi, one) ==
    /\ path_i' = fi
    /\ sector' = infer_sector_from_filename(basename(zone_kml_paths[fi].path))
    /\ IF one.ok
       THEN /\ by_sector_geoms' = one.val.geoms
            /\ by_sector_vals' = one.val.vals
            /\ phase' = phase
       ELSE /\ phase' = "zones_failed"
            /\ UNCHANGED <<by_sector_geoms, by_sector_vals>>

\* lines 103-124: one turn of the loop over the paths
ZonePath ==
    /\ phase = "zones" /\ path_i < Len(zone_kml_paths)
    /\ ZonePathTurn(path_i + 1,
                    zone_file(Ok([geoms |-> by_sector_geoms, vals |-> by_sector_vals]),
                              zone_kml_paths[path_i + 1], path_i + 1))
    /\ UNCHANGED <<env_vars, call_vars, zone_kml_paths, doc_vars,
                   ZONE_INDEXES, FREG_INDEX, req>>

\* lines 126-136: the registry is built and returned
ZoneIndexes ==
    /\ phase = "zones" /\ path_i = Len(zone_kml_paths)
    /\ ZONE_INDEXES' =
          zone_indexes([geoms |-> by_sector_geoms, vals |-> by_sector_vals])
    /\ phase' = "zones_built"
    /\ UNCHANGED <<env_vars, call_vars, zone_kml_paths, loop_vars, doc_vars,
                   FREG_INDEX, req>>

FreguesiaIndexReturn(built) ==
    IF built.ok
    THEN FREG_INDEX' = built.val /\ phase' = "freg_built"
    ELSE FREG_INDEX' = FREG_INDEX /\ phase' = "freg_failed"

\* lines 139-170
FreguesiaIndex ==
    /\ phase = "freguesias"
    /\ FreguesiaIndexReturn(build_freguesia_index_from_path(freguesias_kml))
    /\ UNCHANGED <<env_vars, call_vars, zone_kml_paths, loop_vars, doc_vars,
                   ZONE_INDEXES, req>>

NextBuild == ZonePath \/ ZoneIndexes \/ FreguesiaIndex

SpecBuild == InitBuild /\ [][NextBuild]_vars

\* the rule of the Sector Classifier, on a file name
filename_rule(name) ==
    CASE Contains(lower(name), kw_freguesia) -> None
      [] Contains(lower(name), kw_hsr) \/ Contains(lower(name), kw_retail) -> Retail
      [] Contains(lower(name), kw_office) -> Office
      [] Contains(lower(name), kw_industrial) \/ Contains(lower(name), kw_logistics)
            -> IndustrialLogistics
      [] OTHER -> None

\* C5: each turn of the path loop classifies the file name by the rule
\* (freguesia first, then retail, office, industrial in that order, else
\* None), and a file classified None adds nothing to the accumulators.
C5_FilenameRule ==
    [][path_i' = path_i + 1 =>
          /\ sector' = filename_rule(basename(zone_kml_paths[path_i'].path))
          /\ sector' = None =>
                /\ phase' = phase
                /\ UNCHANGED <<by_sector_geoms, by_sector_vals>>]_vars

\* a file whose name holds "freguesia" and a sector keyword, and which holds
\* a named placemark with a valid polygon, was classified None
C5_Witness ==
    /\ phase = "zones" /\ path_i >= 1 /\ sector = None
    /\ Contains(lower(zone_kml_paths[path_i].path), kw_freguesia)
    /\ Contains(lower(zone_kml_paths[path_i].path), kw_retail)
    /\ zA \in {zone_kml_paths[path_i].doc[k] : k \in 1..Len(zone_kml_paths[path_i].doc)}
    /\ path_i = 2 /\ by_sector_geoms # <<>>

\* an index without the identities of its objects: the rings, the labels, and
\* the label the identity map gives each position
index_view(ix) ==
    [rings |-> [k \in 1..Len(ix.tree.geometries) |-> ix.tree.geometries[k].ring],
     values |-> ix.values,
     by_id |-> [k \in 1..Len(ix.tree.geometries) |->
                   ix.geom_id_to_value[ix.tree.geometries[k].id]]]

registry_view(reg) == [sec \in DOMAIN reg |-> index_view(reg[sec])]

\* a placemark that yields no valid polygon
no_polygons(pm) ==
    /\ _polygons_from_placemark(pm, <<0, 0>>).ok
    /\ _polygons_from_placemark(pm, <<0, 0>>).val = <<>>

skipped_zone(pm) == pm.name = None \/ strip(pm.name) = <<>> \/ no_polygons(pm)

skipped_parish(pm) ==
    \/ \A k \in 1..Len(pm.simple) : pm.simple[k].name # Freguesia
    \/ \E k \in 1..Len(pm.simple) :
          /\ pm.simple[k].name = Freguesia
          /\ \A m \in 1..(k - 1) : pm.simple[m].name # Freguesia
          /\ strip(pm.simple[k].text) = <<>>
    \/ no_polygons(pm)

keep_zone(pm) == ~skipped_zone(pm)

keep_parish(pm) == ~skipped_parish(pm)

without_skipped_zones(paths) ==
    [k \in 1..Len(paths) |-> KmlFile(paths[k].path, SelectSeq(paths[k].doc, keep_zone))]

\* C6: placemarks without a name (zones) or without a "Freguesia" value
\* (parishes), and placemarks that yield no valid polygon, add nothing and do
\* not abort the build: the build ends as it ends on the documents without
\* them, with the same indexes.
C6_SkippedPlacemarks ==
    /\ phase = "zones_built" =>
          /\ build_zone_indexes_from_paths(without_skipped_zones(zone_kml_paths)).ok
          /\ registry_view(ZONE_INDEXES) =
                registry_view(build_zone_indexes_from_paths(
                                 without_skipped_zones(zone_kml_paths)).val)
    /\ phase = "zones_failed" =>
          ~build_zone_indexes_from_paths(without_skipped_zones(zone_kml_paths)).ok
    /\ phase = "freg_built" =>
          /\ build_freguesia_index_from_path(SelectSeq(freguesias_kml, keep_parish)).ok
          /\ index_view(FREG_INDEX) =
                index_view(build_freguesia_index_from_path(
                              SelectSeq(freguesias_kml, keep_parish)).val)
    /\ phase = "freg_failed" =>
          ~build_freguesia_index_from_path(SelectSeq(freguesias_kml, keep_parish)).ok

\* a zone build ended with an index although a file of a sector held a
\* placemark without a name and one without a valid polygon
C6_Witness ==
    /\ phase = "zones_built" /\ ZONE_INDEXES # <<>>
    /\ \E f \in 1..Len(zone_kml_paths) :
          /\ infer_sector_from_filename(basename(zone_kml_paths[f].path)) # None
          /\ \E k \in 1..Len(zone_kml_paths[f].doc) :
                zone_kml_paths[f].doc[k].name = None
          /\ \E k \in 1..Len(zone_kml_paths[f].doc) :
                /\ zone_name_of(zone_kml_paths[f].doc[k]) # <<>>
                /\ no_polygons(zone_kml_paths[f].doc[k])

\* the label of the zone placemark at <<file, placemark>>
zone_label_at(at) ==
    filename_rule(basename(zone_kml_paths[at[1]].path))
        \o Dash \o strip(zone_kml_paths[at[1]].doc[at[2]].name)

\* the label of the parish placemark at <<0, placemark>>
parish_label_at(at) ==
    LET sd == freguesias_kml[at[2]].simple
        k == CHOOSE n \in 1..Len(sd) :
                sd[n].name = Freguesia /\ \A m \in 1..(n - 1) : sd[m].name # Freguesia
    IN  strip(sd[k].text)

\* the polygon g was parsed from the placemark pm
parsed_from(g, pm) ==
    \E k \in 1..Len(pm.polygons) :
        /\ g.id[2] = k
        /\ pm.polygons[k] # None
        /\ _parse_kml_coordinates(pm.polygons[k]).ok
        /\ Len(_parse_kml_coordinates(pm.polygons[k]).val) >= 3
        /\ g.ring = Shell(_parse_kml_coordinates(pm.polygons[k]).val)

aligned_zone(geoms, vals) ==
    /\ Len(geoms) = Len(vals)
    /\ \A i \in 1..Len(geoms) :
          /\ vals[i] = zone_label_at(geoms[i].id[1])
          /\ parsed_from(geoms[i], zone_kml_paths[geoms[i].id[1][1]].doc[geoms[i].id[1][2]])

aligned_parish(geoms, vals) ==
    /\ Len(geoms) = Len(vals)
    /\ \A i \in 1..Len(geoms) :
          /\ vals[i] = parish_label_at(geoms[i].id[1])
          /\ parsed_from(geoms[i], freguesias_kml[geoms[i].id[1][2]])

\* C8: the label list is as long as the polygon list, and position i of the
\* label list holds the label of the placemark polygon i was parsed from:
\* in the accumulators after every file, and in every index returned.
C8_LabelsAligned ==
    /\ DOMAIN by_sector_geoms = DOMAIN by_sector_vals
    /\ \A sec \in DOMAIN by_sector_geoms :
          aligned_zone(by_sector_geoms[sec], by_sector_vals[sec])
    /\ phase = "zones_built" =>
          \A sec \in DOMAIN ZONE_INDEXES :
              aligned_zone(ZONE_INDEXES[sec].tree.geometries, ZONE_INDEXES[sec].values)
    /\ phase = "freg_built" =>
          aligned_parish(FREG_INDEX.tree.geometries, FREG_INDEX.values)

\* an index was built from two files of one sector, one of them with a
\* placemark of two polygons
C8_Witness ==
    /\ phase = "zones_built" /\ Len(zone_kml_paths) = 2
    /\ \E sec \in DOMAIN ZONE_INDEXES :
          LET g == ZONE_INDEXES[sec].tree.geometries
          IN  /\ \E i, j \in 1..Len(g) : g[i].id[1][1] # g[j].id[1][1]
              /\ \E i, j \in 1..Len(g) : g[i].id[1] = g[j].id[1] /\ i # j

-----------------------------------------------------------------------------
(* Calls of lookup_point on a parish index *)

\* query points, as [lat, lon]: on an edge of the triangle and of the square,
\* inside both, a corner of the square inside the triangle's envelope only,
\* inside the far square, its mirror image, and far from everything
Points ==
    {[lat |-> 0, lon |-> 1], [lat |-> 1, lon |-> 1], [lat |-> 2, lon |-> 0],
     [lat |-> 1, lon |-> 5], [lat |-> 5, lon |-> 1], [lat |-> 9, lon |-> 9]}

InitLookup ==
    /\ phase = "freguesias"
    /\ shapely_major \in ShapelyVersions
    /\ pack \in PackOrders
    /\ zone_kml_paths = <<>>
    /\ freguesias_kml \in BSeq(ParishPlacemarks, MaxPlacemarks)
    /\ path_i = 0 /\ sector = Unset
    /\ by_sector_geoms = <<>> /\ by_sector_vals = <<>>
    /\ SectorIdle /\ RingIdle /\ AppIdle /\ LookupIdle

LookupPoint ==
    /\ phase = "freg_built"
    /\ \E pt \in Points :
          lk' = [called |-> TRUE, lat |-> pt.lat, lon |-> pt.lon,
                 result |-> lookup_point(FREG_INDEX, pt.lat, pt.lon)]
    /\ UNCHANGED <<env_vars, value, norm_out, coords_pm, polys_out,
                   zone_kml_paths, loop_vars, doc_vars, ZONE_INDEXES, FREG_INDEX,
                   req, phase>>

NextLookup == FreguesiaIndex \/ LookupPoint

SpecLookup == InitLookup /\ [][NextLookup]_vars

\* the positions of index ix whose polygon covers the point, as places in
\* the order in which the tree reports its candidates
covering(ix, pt) ==
    {k \in 1..Len(tree_query(ix.tree, pt)) :
        covers(ix.tree.geometries[tree_query(ix.tree, pt)[k]], pt)}

first_covering(ix, pt) ==
    tree_query(ix.tree, pt)[CHOOSE k \in covering(ix, pt) :
                               \A m \in covering(ix, pt) : k <= m]

\* C2: lookup_point returns the label stored at the position of the first
\* candidate, in the order of the tree's query, whose polygon covers the
\* point, and None exactly when no candidate covers it.
C2_FirstCoveringCandidate ==
    lk.called =>
        IF covering(FREG_INDEX, <<lk.lon, lk.lat>>) = {}
        THEN lk.result = None
        ELSE /\ lk.result # None
             /\ lk.result =
                   FREG_INDEX.values[first_covering(FREG_INDEX, <<lk.lon, lk.lat>>)]

\* two candidates with different labels cover the point, the first of them
\* in the tree's order is not the first in the list, and there is a
\* candidate that does not cover it
C2_Witness ==
    /\ lk.called /\ lk.result # None
    /\ \E k, m \in covering(FREG_INDEX, <<lk.lon, lk.lat>>) :
          LET q == tree_query(FREG_INDEX.tree, <<lk.lon, lk.lat>>)
          IN  /\ k < m /\ q[k] > q[m]
              /\ FREG_INDEX.values[q[k]] # FREG_INDEX.values[q[m]]
    /\ shapely_major = 1

-----------------------------------------------------------------------------
(* app.load_indexes *)

ZONES_DIR == <<"d","a","t","a","/","z","o","n","e","s">>

DotKml == <<".","k","m","l">>

\* str.endswith
endswith(s, suffix) ==
    /\ Len(s) >= Len(suffix)
    /\ SubSeq(s, Len(s) - Len(suffix) + 1, Len(s)) = suffix

\* os.path.join
path_join(dir, fn) == dir \o <<Slash>> \o fn

\* lines 80-85: the loop over os.listdir(ZONES_DIR)
RECURSIVE listed_zone_paths(_)
listed_zone_paths(listing) ==
    IF listing = <<>> THEN <<>>
    ELSE IF \/ ~endswith(lower(Head(listing).path), DotKml)
            \/ Contains(lower(Head(listing).path), kw_freguesia)
         THEN listed_zone_paths(Tail(listing))
    ELSE <<KmlFile(path_join(ZONES_DIR, Head(listing).path), Head(listing).doc)>>
            \o listed_zone_paths(Tail(listing))

\* lines 78-85
zone_paths_of(dir) == IF dir.isdir THEN listed_zone_paths(dir.zones) ELSE <<>>

\* ensure_freguesias_unzipped raises without the gzipped file
unzipped(dir, doc) == IF dir.gz THEN Ok(doc) ELSE Raise

parish_index_of(kml) ==
    IF ~kml.ok THEN Raise ELSE build_freguesia_index_from_path(kml.val)

\* lines 87-91: the two globals after load_indexes, or Raise
loaded(zones, parishes) ==
    IF ~zones.ok \/ ~parishes.ok THEN Raise
    ELSE Ok([ZONE_INDEXES |-> zones.val, FREG_INDEX |-> parishes.val])

load_indexes(dir, doc) ==
    loaded(build_zone_indexes_from_paths(zone_paths_of(dir)),
           parish_index_of(unzipped(dir, doc)))

-----------------------------------------------------------------------------
(* app.enrich *)

\* ZONE_INDEXES.setdefault(sector, <empty index>) in place of get
registry_after_setdefault(reg, sec) ==
    IF sec \in DOMAIN reg THEN reg
    ELSE (sec :> SpatialIndex(STRtree(<<>>), <<>>, <<>>)) @@ reg

\* ZONE_INDEXES.get(sector) leaves the registry as it is
registry_after_get(reg, sec) == reg

\* row_outputs with the parish lookup made only under a zone index
row_outputs_zone_gated(zones, freg, sec, lat, lon) ==
    IF ~lat.ok \/ ~lon.ok
    THEN [zones_out |-> <<None>>, freg_out |-> <<None>>]
    ELSE IF sec \in DOMAIN zones
    THEN [zones_out |-> <<lookup_point(zones[sec], lat.val, lon.val)>>,
          freg_out |-> <<lookup_point(freg, lat.val, lon.val)>>]
    ELSE [zones_out |-> <<None>>, freg_out |-> <<None>>]

\* row_outputs with a row that fails to parse left out of both lists
row_outputs_skip_failed(zones, freg, sec, lat, lon) ==
    IF ~lat.ok \/ ~lon.ok
    THEN [zones_out |-> <<>>, freg_out |-> <<>>]
    ELSE [zones_out |-> <<IF sec \in DOMAIN zones
                          THEN lookup_point(zones[sec], lat.val, lon.val)
                          ELSE None>>,
          freg_out |-> <<lookup_point(freg, lat.val, lon.val)>>]

\* lines 149-166: what one row appends to zones_out and to freg_out
row_outputs(zones, freg, sec, lat, lon) ==
    IF ~lat.ok \/ ~lon.ok
    THEN [zones_out |-> <<None>>, freg_out |-> <<None>>]
    ELSE [zones_out |-> <<IF sec \in DOMAIN zones
                          THEN lookup_point(zones[sec], lat.val, lon.val)
                          ELSE None>>,
          freg_out |-> <<lookup_point(freg, lat.val, lon.val)>>]

\* lines 145-166: one turn of the row loop
enrich_row(zones, freg, row) ==
    row_outputs(zones, freg, normalize_sector(row.sector),
                py_float(row.lat), py_float(row.lon))

both(first, rest) ==
    [zones_out |-> first.zones_out \o rest.zones_out,
     freg_out |-> first.freg_out \o rest.freg_out]

\* lines 140-166: the two lists after the loop over all rows
RECURSIVE enrich_rows(_, _, _)
enrich_rows(zones, freg, rows) ==
    IF rows = <<>> THEN [zones_out |-> <<>>, freg_out |-> <<>>]
    ELSE both(enrich_row(zones, freg, Head(rows)),
              enrich_rows(zones, freg, Tail(rows)))

kw_csv == <<"c","s","v">>

kw_xlsx == <<"x","l","s","x">>

\* (request.form.get("output_format") or "csv").lower().strip()
output_format_of(rq) ==
    IF rq.output_format = None \/ rq.output_format = <<>> THEN kw_csv
    ELSE strip(lower(rq.output_format))

\* lines 109-138: the status of an early return, 0 when the row loop is entered
early_status(rq, freg) ==
    IF ~rq.auth THEN 401
    ELSE IF rq.assets.kind = "none" THEN 400
    ELSE IF freg = NoIndex THEN 500
    ELSE IF output_format_of(rq) \notin {kw_csv, kw_xlsx} THEN 400
    ELSE IF rq.assets.kind = "unreadable" THEN 400
    ELSE IF rq.assets.kind = "no_columns" THEN 400
    ELSE 0

\* lines 168-177: pandas raises when a column is not as long as the frame
response_status(rows, zones_out, freg_out) ==
    IF Len(zones_out) = Len(rows) /\ Len(freg_out) = Len(rows) THEN 200 ELSE 500

-----------------------------------------------------------------------------
(* The process: load_indexes at import, then /enrich requests *)

Requests == {"r1", "r2"}

Table(rows) == [kind |-> "table", rows |-> rows]

Request(auth, assets, output_format) ==
    [auth |-> auth, assets |-> assets, output_format |-> output_format]

\* A row is [sector, lat, lon]: str(row[sector_col]) and the two cells float()
\* is applied to, as iterrows hands them over.
RowRetail == [sector |-> <<" ","r","e","t","a","i","l"," ">>, lat |-> <<"0">>, lon |-> <<"1">>]

RowOffice == [sector |-> <<"O","f","f","i","c","e">>, lat |-> <<"1">>, lon |-> <<"5">>]

RowHsrPark == [sector |-> <<"H","S","R"," ","P","a","r","k">>, lat |-> <<"1">>, lon |-> <<"1">>]

RowBadLat == [sector |-> <<"R","e","t","a","i","l">>, lat |-> <<"a","b","c">>, lon |-> <<"1">>]

RowBadLon == [sector |-> <<"o","f","f","i","c","e">>, lat |-> <<"2">>, lon |-> <<"x">>]

RowMixed == [sector |-> <<"M","i","x","e","d"," ","U","s","e">>, lat |-> <<"2">>, lon |-> <<"0">>]

RowCatalog == {RowRetail, RowOffice, RowHsrPark, RowBadLat, RowBadLon, RowMixed}

\* requests that return before the row loop
EarlyRequests ==
    {Request(FALSE, Table(<<RowRetail>>), None),
     Request(TRUE, [kind |-> "none", rows |-> <<>>], None),
     Request(TRUE, Table(<<RowRetail>>), <<"p","d","f">>),
     Request(TRUE, [kind |-> "unreadable", rows |-> <<>>], None),
     Request(TRUE, [kind |-> "no_columns", rows |-> <<RowRetail>>], <<"c","s","v">>)}

\* one request at a time: every upload of at most MaxRows rows
ServeRequests ==
    EarlyRequests
    \cup {Request(TRUE, Table(rows), None) : rows \in BSeq(RowCatalog, MaxRows)}
    \cup {Request(TRUE, Table(<<RowOffice>>), <<" ","X","L","S","X"," ">>)}

\* requests served side by side
Uploads ==
    {<<>>, <<RowRetail, RowBadLat, RowOffice>>, <<RowHsrPark, RowBadLon>>,
     <<RowMixed, RowRetail>>}

SharedRequests ==
    {Request(FALSE, Table(<<RowRetail>>), None)}
    \cup {Request(TRUE, Table(rows), None) : rows \in Uploads}

Dir(isdir, zones, gz) == [isdir |-> isdir, zones |-> zones, gz |-> gz]

\* what is on disk when the process starts: DATA_DIR and the parish document
Deployments ==
    {[dir |-> Dir(TRUE,
                  <<KmlFile(<<"H","S","R","_","Z","o","n","e","s",".","k","m","l">>, <<zNoName, zA, zEmpty, zBlank>>),
                    KmlFile(<<"O","f","f","i","c","e",".","K","M","L">>, <<zB, zEmpty, zA>>),
                    KmlFile(<<"r","e","t","a","i","l",".","t","x","t">>, <<zB>>),
                    KmlFile(<<"F","r","e","g","u","e","s","i","a","s","_","R","e","t","a","i","l",".","k","m","l">>, <<zB>>)>>,
                  TRUE),
      doc |-> <<pP, pNoF, pQ>>],
     [dir |-> Dir(TRUE,
                  <<KmlFile(<<"r","e","t","a","i","l","_","o","f","f","i","c","e",".","k","m","l">>, <<zB>>),
                    KmlFile(<<"H","S","R","_","Z","o","n","e","s",".","k","m","l">>, <<zNoName, zA, zEmpty>>),
                    KmlFile(<<"L","o","g","i","s","t","i","c","s",".","k","m","l">>, <<zEmpty>>)>>,
                  TRUE),
      doc |-> <<pQ, pBlankF, pZero, pP>>],
     [dir |-> Dir(FALSE, <<>>, TRUE), doc |-> <<>>],
     [dir |-> Dir(TRUE, <<KmlFile(<<"i","n","d","u","s","t","r","i","a","l","_","x",".","k","m","l">>, <<zA, zBad>>)>>, TRUE),
      doc |-> <<pP>>],
     [dir |-> Dir(TRUE, <<KmlFile(<<"O","f","f","i","c","e",".","K","M","L">>, <<zB>>)>>, FALSE),
      doc |-> <<pP>>]}

IdleRequest ==
    [pc |-> "idle", request |-> Request(FALSE, Table(<<>>), None), status |-> 0,
     pos |-> 0, zones_out |-> <<>>, freg_out |-> <<>>]

Init ==
    /\ phase = "import"
    /\ shapely_major \in ShapelyVersions
    /\ pack \in PackOrders
    /\ \E d \in Deployments : data_dir = d.dir /\ freguesias_kml = d.doc
    /\ zone_kml_paths = <<>>
    /\ path_i = 0 /\ sector = Unset
    /\ by_sector_geoms = <<>> /\ by_sector_vals = <<>>
    /\ ZONE_INDEXES = <<>> /\ FREG_INDEX = NoIndex
    /\ req = [r \in Requests |-> IdleRequest]
    /\ SectorIdle /\ RingIdle /\ LookupIdle

LoadIndexesReturn(got) ==
    IF got.ok
    THEN /\ ZONE_INDEXES' = got.val.ZONE_INDEXES
         /\ FREG_INDEX' = got.val.FREG_INDEX
         /\ phase' = "serving"
    ELSE /\ UNCHANGED <<ZONE_INDEXES, FREG_INDEX>>
         /\ phase' = "failed"

\* lines 70-95: load_indexes() at import; the process serves only if it returns
LoadIndexes ==
    /\ phase = "import"
    /\ zone_kml_paths' = zone_paths_of(data_dir)
    /\ LoadIndexesReturn(load_indexes(data_dir, freguesias_kml))
    /\ UNCHANGED <<env_vars, call_vars, loop_vars, doc_vars, req>>

ReceiveStatus(r, rq, status) ==
    req' = [req EXCEPT ![r] =
               [pc |-> IF status = 0 THEN "rows" ELSE "done",
                request |-> rq, status |-> status, pos |-> 0,
                zones_out |-> <<>>, freg_out |-> <<>>]]

\* lines 108-141: a request arrives and returns early or enters the row loop
Receive(r, rq) ==
    /\ phase = "serving" /\ req[r].pc = "idle"
    /\ ReceiveStatus(r, rq, early_status(rq, FREG_INDEX))
    /\ UNCHANGED <<env_vars, call_vars, zone_kml_paths, loop_vars, doc_vars,
                   ZONE_INDEXES, FREG_INDEX, phase>>

EnrichRowAppend(r, out) ==
    req' = [req EXCEPT ![r].pos = @ + 1,
                       ![r].zones_out = @ \o out.zones_out,
                       ![r].freg_out = @ \o out.freg_out]

\* lines 144-166: one turn of the row loop of request r
EnrichRow(r) ==
    /\ phase = "serving" /\ req[r].pc = "rows"
    /\ req[r].pos < Len(req[r].request.assets.rows)
    /\ EnrichRowAppend(r, enrich_row(ZONE_INDEXES, FREG_INDEX,
                                     req[r].request.assets.rows[req[r].pos + 1]))
    /\ ZONE_INDEXES' =
          registry_after_get(
              ZONE_INDEXES,
              normalize_sector(req[r].request.assets.rows[req[r].pos + 1].sector))
    /\ UNCHANGED <<env_vars, call_vars, zone_kml_paths, loop_vars, doc_vars,
                   FREG_INDEX, phase>>

\* lines 168-200: the frame is built and sent
Respond(r) ==
    /\ phase = "serving" /\ req[r].pc = "rows"
    /\ req[r].pos = Len(req[r].request.assets.rows)
    /\ req' = [req EXCEPT ![r].pc = "done",
                          ![r].status = response_status(req[r].request.assets.rows,
                                                        req[r].zones_out,
                                                        req[r].freg_out)]
    /\ UNCHANGED <<env_vars, call_vars, zone_kml_paths, loop_vars, doc_vars,
                   ZONE_INDEXES, FREG_INDEX, phase>>

Next ==
    \/ LoadIndexes
    \/ \E r \in Requests : \E rq \in SharedRequests : Receive(r, rq)
    \/ \E r \in Requests : EnrichRow(r)
    \/ \E r \in Requests : Respond(r)

Spec == Init /\ [][Next]_vars

NextServe ==
    \/ LoadIndexes
    \/ \E rq \in ServeRequests : Receive("r1", rq)
    \/ EnrichRow("r1")
    \/ Respond("r1")

SpecServe == Init /\ [][NextServe]_vars

-----------------------------------------------------------------------------
(* Claims about /enrich *)

rows_of(r) == req[r].request.assets.rows

\* float(row["latitude"]) and float(row["longitude"]) both return
parses(row) == py_float(row.lat).ok /\ py_float(row.lon).ok

lat_of(row) == py_float(row.lat).val

lon_of(row) == py_float(row.lon).val

Canonical == {Retail, Office, IndustrialLogistics}

\* C3: for every row of a request whose latitude and longitude parse, the
\* Zone output is lookup_point on the index registered under the row's
\* normalized category, or None when the registry has no such key, and the
\* Freguesia output is lookup_point on the parish index in either case.
C3_RowRouting ==
    \A r \in Requests : \A i \in 1..req[r].pos :
        parses(rows_of(r)[i]) =>
            /\ i <= Len(req[r].zones_out) /\ i <= Len(req[r].freg_out)
            /\ req[r].zones_out[i] =
                  IF normalize_sector(rows_of(r)[i].sector) \in DOMAIN ZONE_INDEXES
                  THEN lookup_point(
                           ZONE_INDEXES[normalize_sector(rows_of(r)[i].sector)],
                           lat_of(rows_of(r)[i]), lon_of(rows_of(r)[i]))
                  ELSE None
            /\ req[r].freg_out[i] =
                  lookup_point(FREG_INDEX, lat_of(rows_of(r)[i]),
                               lon_of(rows_of(r)[i]))

\* a response in which one row has no zone index for its category and still
\* a parish, and another row has a zone
C3_Witness ==
    /\ req["r1"].pc = "done" /\ req["r1"].status = 200
    /\ \E i, j \in 1..req["r1"].pos :
          /\ parses(rows_of("r1")[i])
          /\ normalize_sector(rows_of("r1")[i].sector) \notin DOMAIN ZONE_INDEXES
          /\ req["r1"].zones_out[i] = None
          /\ req["r1"].freg_out[i] # None
          /\ req["r1"].zones_out[j] # None

\* the entries of out at the places of the rows that parse
RECURSIVE at_parsed(_, _)
at_parsed(out, rows) ==
    IF rows = <<>> \/ out = <<>> THEN <<>>
    ELSE (IF parses(Head(rows)) THEN <<Head(out)>> ELSE <<>>)
            \o at_parsed(Tail(out), Tail(rows))

parsed_rows(rows) == SelectSeq(rows, parses)

\* C4: in a request that enters the row loop, a row whose latitude or
\* longitude does not parse gets None for Zone and for Freguesia, the request
\* still answers 200, the other rows get what the batch without the failing
\* rows gives them, and both lists hold one entry for each row read so far,
\* in row order.
C4_FailedRowsAreLocal ==
    \A r \in Requests :
        (req[r].pc # "idle" /\ early_status(req[r].request, FREG_INDEX) = 0) =>
            /\ req[r].pc = "done" =>
                  /\ req[r].status = 200
                  /\ req[r].pos = Len(rows_of(r))
            /\ Len(req[r].zones_out) = req[r].pos
            /\ Len(req[r].freg_out) = req[r].pos
            /\ \A i \in 1..req[r].pos :
                  ~parses(rows_of(r)[i]) =>
                      /\ i <= Len(req[r].zones_out) /\ req[r].zones_out[i] = None
                      /\ i <= Len(req[r].freg_out) /\ req[r].freg_out[i] = None
            /\ at_parsed(req[r].zones_out, SubSeq(rows_of(r), 1, req[r].pos)) =
                  enrich_rows(ZONE_INDEXES, FREG_INDEX,
                              parsed_rows(SubSeq(rows_of(r), 1, req[r].pos))).zones_out
            /\ at_parsed(req[r].freg_out, SubSeq(rows_of(r), 1, req[r].pos)) =
                  enrich_rows(ZONE_INDEXES, FREG_INDEX,
                              parsed_rows(SubSeq(rows_of(r), 1, req[r].pos))).freg_out

\* a response whose first row failed to parse and whose second row has a
\* zone and a parish
C4_Witness ==
    /\ req["r1"].pc = "done" /\ req["r1"].status = 200
    /\ req["r1"].pos = 2
    /\ ~parses(rows_of("r1")[1])
    /\ req["r1"].zones_out[1] = None /\ req["r1"].freg_out[1] = None
    /\ req["r1"].zones_out[2] # None /\ req["r1"].freg_out[2] # None

\* text starts with prefix
starts_with(text, prefix) ==
    Len(text) >= Len(prefix) /\ SubSeq(text, 1, Len(prefix)) = prefix

\* label is "sec - <name>" with a name that is not empty
zone_label_form(sec, label) ==
    /\ starts_with(label, sec \o Dash)
    /\ Len(label) > Len(sec \o Dash)

registry_form(reg) ==
    \A sec \in DOMAIN reg :
        /\ sec \in Canonical
        /\ Len(reg[sec].tree.geometries) >= 1
        /\ \A k \in 1..Len(reg[sec].values) :
              zone_label_form(sec, reg[sec].values[k])
        /\ \A id \in DOMAIN reg[sec].geom_id_to_value :
              zone_label_form(sec, reg[sec].geom_id_to_value[id])

\* what build_zone_indexes_from_paths returns for every list of at most
\* MaxFiles zone files
built_registries ==
    {build_zone_indexes_from_paths(paths) : paths \in BSeq(ZoneFiles, MaxFiles)}

\* C10: every key of the registry is one of the three canonical sectors,
\* every index of the registry holds a polygon, every label under key C is
\* "C - <non-empty zone name>"; a row whose normalized category is a
\* pass-through string gets None for Zone, and every Zone that is not None
\* starts with the row's normalized category and " - ".
C10_RegistryKeysCanonical ==
    /\ registry_form(ZONE_INDEXES)
    /\ \A built \in built_registries : built.ok => registry_form(built.val)
    /\ \A r \in Requests : \A i \in 1..Len(req[r].zones_out) :
          /\ normalize_sector(rows_of(r)[i].sector) \notin Canonical =>
                req[r].zones_out[i] = None
          /\ req[r].zones_out[i] # None =>
                starts_with(req[r].zones_out[i],
                            normalize_sector(rows_of(r)[i].sector) \o Dash)

\* a response with a pass-through row and a row with a zone, from a registry
\* built out of a file with a blank-named and an empty placemark
C10_Witness ==
    /\ req["r1"].pc = "done"
    /\ DOMAIN ZONE_INDEXES # {}
    /\ \E k \in 1..Len(zone_kml_paths) : \E m \in 1..Len(zone_kml_paths[k].doc) :
          zone_kml_paths[k].doc[m] = zBlank
    /\ \E i, j \in 1..Len(req["r1"].zones_out) :
          /\ normalize_sector(rows_of("r1")[i].sector) \notin Canonical
          /\ parses(rows_of("r1")[i])
          /\ req["r1"].zones_out[j] # None

\* the outputs of the row resolved alone against the indexes as
\* load_indexes built them
alone(row) ==
    enrich_row(load_indexes(data_dir, freguesias_kml).val.ZONE_INDEXES,
               load_indexes(data_dir, freguesias_kml).val.FREG_INDEX, row)

resolved_alone ==
    \A r \in Requests : \A i \in 1..req[r].pos :
        /\ i <= Len(req[r].zones_out) /\ i <= Len(req[r].freg_out)
        /\ <<req[r].zones_out[i]>> = alone(rows_of(r)[i]).zones_out
        /\ <<req[r].freg_out[i]>> = alone(rows_of(r)[i]).freg_out

\* C7: once load_indexes has returned no step changes ZONE_INDEXES or
\* FREG_INDEX, whose values hold each index's polygons, labels and id-to-label
\* map; and however the requests interleave, each row's Zone and Freguesia
\* are those of the row resolved alone.
C7_IndexesImmutable ==
    /\ [][phase = "serving" => UNCHANGED <<ZONE_INDEXES, FREG_INDEX>>]_vars
    /\ [](phase = "serving" => resolved_alone)

\* two requests with different uploads are both inside their row loops, one
\* of them has asked for a sector the registry does not hold
C7_Witness ==
    /\ phase = "serving" /\ DOMAIN ZONE_INDEXES # {}
    /\ req["r1"].pc = "rows" /\ req["r2"].pc = "rows"
    /\ req["r1"].pos >= 1 /\ req["r2"].pos >= 1
    /\ rows_of("r1") # rows_of("r2")
    /\ normalize_sector(rows_of("r1")[1].sector) \notin DOMAIN ZONE_INDEXES
    /\ \E i \in 1..req["r2"].pos : req["r2"].zones_out[i] # None

====
